---- MODULE Spec2Model ----
(***************************************************************************)
(* Model of the Cervical Cancer Prediction API (backend/app/main.py).      *)
(*                                                                         *)
(* The service loads five artifacts when the module is imported, then      *)
(* answers GET / and the two rate-limited POST endpoints /predict/svm and  *)
(* /predict/dt.  Both prediction handlers share build_feature_vector.      *)
(*                                                                         *)
(* Three specifications are defined over the same variables:               *)
(*   SpecBuild  build_feature_vector alone, over every small input mapping *)
(*              and every small feature list;                              *)
(*   Spec       startup followed by concurrently handled requests of one   *)
(*              client;                                                    *)
(*   SpecLimit  the same server with two clients, for the rate limiter.    *)
(***************************************************************************)
EXTENDS Integers, Sequences, FiniteSets, TLC

VARIABLES
    phase,        \* "loading" | "serving" | "crashed" | "unit" (SpecBuild only)
    artifacts,    \* the module globals set so far by the joblib.load calls, in order
    hits,         \* limiter storage: requests counted in the current window per key
    slots,        \* the requests being handled, one record per worker
    arg_input,    \* SpecBuild: the input_data argument
    arg_list,     \* SpecBuild: the feature_list argument
    ret           \* SpecBuild: the outcome of the call

vars == <<phase, artifacts, hits, slots, arg_input, arg_list, ret>>

(***************************************************************************)
(* Bounds of the model.                                                    *)
(***************************************************************************)
MaxInflight == 2      \* workers handling requests concurrently (Spec)
MaxFeatures == 3      \* longest feature list drawn in SpecBuild

(***************************************************************************)
(* Values.  A JSON value of the data mapping is a number or something      *)
(* else; PredictRequest declares `data: dict` and inspects no value.       *)
(***************************************************************************)
Num(n) == [kind |-> "number", val |-> n]
Str == [kind |-> "string", val |-> 0]
Values == {Num(0), Num(1), Str}
IsNumber(v) == v.kind = "number"

Names == {"Age", "Smokes", "STDs"}

(***************************************************************************)
(* A Python dict: the <<key, value>> pairs in insertion order, keys        *)
(* distinct.                                                               *)
(***************************************************************************)
RECURSIVE SeqsUpTo(_, _)
SeqsUpTo(S, n) ==
    IF n = 0 THEN {<<>>}
    ELSE LET shorter == SeqsUpTo(S, n - 1)
         IN  shorter \cup {Append(q, e) : q \in {t \in shorter : Len(t) = n - 1}, e \in S}

Keys(d) == {d[i][1] : i \in 1..Len(d)}
IsDict(d) == \A i, j \in 1..Len(d) : d[i][1] = d[j][1] => i = j
Dicts(K, V) == {d \in SeqsUpTo(K \X V, Cardinality(K)) : IsDict(d)}

\* `f in input_data`
Contains(d, f) == f \in Keys(d)
\* `input_data[f]`, defined when f is a key
Lookup(d, f) == d[CHOOSE i \in 1..Len(d) : d[i][1] = f][2]
\* the mapping a dict denotes, whatever the insertion order
AsMapping(d) == {<<d[i][1], d[i][2]>> : i \in 1..Len(d)}

(***************************************************************************)
(* build_feature_vector (main.py 107-126).  The outcome records what the   *)
(* call raises or returns, and its two arguments as the call leaves them   *)
(* (both are passed by reference).                                         *)
(***************************************************************************)
missing_first_only(input_data, feature_list) ==
    \* faulty variant: the scan stops at the first missing name
    LET all == SelectSeq(feature_list, LAMBDA f : ~Contains(input_data, f))
    IN  IF all = <<>> THEN <<>> ELSE <<Head(all)>>

missing_features(input_data, feature_list) ==
    SelectSeq(feature_list, LAMBDA f : ~Contains(input_data, f))

build_extra_first(input_data, feature_list) ==
    \* faulty variant: the values in the input's own order
    LET present == SelectSeq(input_data, LAMBDA kv : \E i \in 1..Len(feature_list) : feature_list[i] = kv[1])
    IN  [i \in 1..Len(present) |-> present[i][2]]

ordered_values_reversed(input_data, feature_list) ==
    \* faulty variant: the feature list is walked from its end
    [i \in 1..Len(feature_list) |->
        Lookup(input_data, feature_list[Len(feature_list) + 1 - i])]

ordered_values_short(input_data, feature_list) ==
    \* faulty variant: the last feature is left out
    [i \in 1..(Len(feature_list) - 1) |-> Lookup(input_data, feature_list[i])]

ordered_values(input_data, feature_list) ==
    [i \in 1..Len(feature_list) |-> Lookup(input_data, feature_list[i])]

build_feature_vector_imputing(input_data, feature_list) ==
    \* faulty variant: a missing feature is defaulted to 0 instead of reported
    [raised       |-> FALSE,
     status_code  |-> 0,
     detail       |-> "",
     listed       |-> <<>>,
     value        |-> [i \in 1..Len(feature_list) |->
                         IF Contains(input_data, feature_list[i])
                         THEN Lookup(input_data, feature_list[i]) ELSE Num(0)],
     input_data   |-> input_data,
     feature_list |-> feature_list]

build_feature_vector_reversing(input_data, feature_list) ==
    \* faulty variant: the feature list is reversed in place once the vector is built
    LET missing == SelectSeq(feature_list, LAMBDA f : ~Contains(input_data, f))
        n == Len(feature_list)
    IN  IF missing # <<>>
        THEN [raised |-> TRUE, status_code |-> 400, detail |-> "Missing features: ",
              listed |-> missing, value |-> <<>>,
              input_data |-> input_data, feature_list |-> feature_list]
        ELSE [raised |-> FALSE, status_code |-> 0, detail |-> "", listed |-> <<>>,
              value |-> [i \in 1..n |-> Lookup(input_data, feature_list[i])],
              input_data |-> input_data,
              feature_list |-> [i \in 1..n |-> feature_list[n + 1 - i]]]

build_feature_vector(input_data, feature_list) ==
    LET missing == missing_features(input_data, feature_list)
    IN  IF missing # <<>>
        THEN [raised       |-> TRUE,
              status_code  |-> 400,
              detail       |-> "Missing features: ",
              listed       |-> missing,
              value        |-> <<>>,
              input_data   |-> input_data,
              feature_list |-> feature_list]
        ELSE [raised       |-> FALSE,
              status_code  |-> 0,
              detail       |-> "",
              listed       |-> <<>>,
              value        |-> ordered_values(input_data, feature_list),
              input_data   |-> input_data,
              feature_list |-> feature_list]

(***************************************************************************)
(* SpecBuild: one call of build_feature_vector on drawn arguments.         *)
(***************************************************************************)
NotCalled == [raised |-> FALSE, status_code |-> -1, detail |-> "", listed |-> <<>>,
              value |-> <<>>, input_data |-> <<>>, feature_list |-> <<>>]

InitBuild ==
    /\ phase = "unit"
    /\ artifacts = <<>>
    /\ hits = <<>>
    /\ slots = <<>>
    /\ arg_input \in Dicts(Names, Values)
    /\ arg_list \in SeqsUpTo(Names, MaxFeatures)
    /\ ret = NotCalled

CallBuild ==
    /\ phase = "unit"
    /\ ret = NotCalled
    /\ ret' = build_feature_vector(arg_input, arg_list)
    /\ UNCHANGED <<phase, artifacts, hits, slots, arg_input, arg_list>>

NextBuild == CallBuild

SpecBuild == InitBuild /\ [][NextBuild]_vars

(***************************************************************************)
(* The artifacts under model_store/ (main.py 74-80).  The pickled objects  *)
(* are data of the deployment; the model fixes one small instance of each: *)
(* a StandardScaler-like affine map, a linear SVM decision function, a     *)
(* depth-2 decision tree, and two feature lists that differ in length and  *)
(* order.  Both classifiers are binary, with classes 0 and 1.              *)
(***************************************************************************)
NumArtifacts == 5

SvmModelFile == [coef |-> <<2, 1, 1>>, intercept |-> 0, classes |-> <<0, 1>>]
SvmScalerFile == [twice_mean |-> <<1, 1, 1>>]
SvmFeaturesFile == <<"Age", "Smokes", "STDs">>
DtModelFile == [n_features |-> 2, classes |-> <<0, 1>>]
DtFeaturesFile == <<"STDs", "Age">>

ArtifactFiles == <<SvmModelFile, SvmScalerFile, SvmFeaturesFile, DtModelFile, DtFeaturesFile>>

\* the module globals, in the order of the load statements
svm_model == artifacts[1].value
svm_scaler == artifacts[2].value
svm_features == artifacts[3].value
dt_model == artifacts[4].value
dt_features == artifacts[5].value

AllNumbers(row) == \A i \in 1..Len(row) : IsNumber(row[i])

RECURSIVE Dot(_, _, _)
Dot(w, row, n) == IF n = 0 THEN 0 ELSE w[n] * row[n].val + Dot(w, row, n - 1)

\* scaler.transform(rows): (x - mean) / scale per column, here 2x - 2*mean;
\* raises on a row of the wrong width or with a value that is no number
scaler_transform(scaler, rows) ==
    IF \A r \in 1..Len(rows) : Len(rows[r]) = Len(scaler.twice_mean) /\ AllNumbers(rows[r])
    THEN [raised |-> FALSE,
          value  |-> [r \in 1..Len(rows) |->
                         [i \in 1..Len(rows[r]) |-> Num(2 * rows[r][i].val - scaler.twice_mean[i])]]]
    ELSE [raised |-> TRUE, value |-> <<>>]

\* svm_model.predict(rows): the class on the positive or negative side of the
\* decision function, one label per row
svm_model_predict(model, rows) ==
    IF \A r \in 1..Len(rows) : Len(rows[r]) = Len(model.coef) /\ AllNumbers(rows[r])
    THEN [raised |-> FALSE,
          value  |-> [r \in 1..Len(rows) |->
                         IF Dot(model.coef, rows[r], Len(model.coef)) + model.intercept > 0
                         THEN model.classes[2] ELSE model.classes[1]]]
    ELSE [raised |-> TRUE, value |-> <<>>]

\* dt_model.predict(rows): a tree on two columns
dt_model_predict(model, rows) ==
    IF \A r \in 1..Len(rows) : Len(rows[r]) = model.n_features /\ AllNumbers(rows[r])
    THEN [raised |-> FALSE,
          value  |-> [r \in 1..Len(rows) |->
                         IF rows[r][1].val <= 0
                         THEN (IF rows[r][2].val <= 0 THEN model.classes[2] ELSE model.classes[1])
                         ELSE model.classes[2]]]
    ELSE [raised |-> TRUE, value |-> <<>>]

(***************************************************************************)
(* Startup: the five joblib.load statements run in order while the module  *)
(* is imported.  A load that raises ends the import, and with it the       *)
(* process, before the server accepts a connection.                        *)
(***************************************************************************)
load_step_swallowed(arts, file, ok) ==
    \* faulty variant: a failed load is caught and the import goes on
    [artifacts |-> Append(arts, [loaded |-> ok, value |-> file]),
     phase     |-> IF Len(arts) + 1 = NumArtifacts THEN "serving" ELSE "loading"]

load_step(arts, file, ok) ==
    IF ok
    THEN [artifacts |-> Append(arts, [loaded |-> TRUE, value |-> file]),
          phase     |-> IF Len(arts) + 1 = NumArtifacts THEN "serving" ELSE "loading"]
    ELSE [artifacts |-> arts, phase |-> "crashed"]

LoadArtifact ==
    /\ phase = "loading"
    /\ Len(artifacts) < NumArtifacts
    /\ \E ok \in BOOLEAN :
          LET r == load_step(artifacts, ArtifactFiles[Len(artifacts) + 1], ok)
          IN  /\ artifacts' = r.artifacts
              /\ phase' = r.phase
    /\ UNCHANGED <<hits, slots, arg_input, arg_list, ret>>

LoadedArtifacts == [i \in 1..NumArtifacts |-> [loaded |-> TRUE, value |-> ArtifactFiles[i]]]

(***************************************************************************)
(* Requests.                                                               *)
(***************************************************************************)
AllClients == {"c1", "c2"}
Limited == {"svm", "dt"}
Endpoints == Limited \cup {"health"}
RateLimit == 10

Pair(k, v) == <<k, v>>
ServerPayloads ==
    { <<Pair("Age", Num(1)), Pair("Smokes", Num(1)), Pair("STDs", Num(0))>>,
      <<Pair("STDs", Num(0)), Pair("Smokes", Num(1)), Pair("Age", Num(1))>>,
      <<Pair("Dx:Cancer", Str), Pair("Age", Num(0)), Pair("Smokes", Num(1)), Pair("STDs", Num(1))>>,
      <<Pair("STDs", Num(1)), Pair("Age", Num(0))>>,
      <<Pair("Smokes", Num(1))>>,
      <<Pair("Age", Str), Pair("Smokes", Num(0)), Pair("STDs", Num(1))>> }
LimitPayloads ==
    { <<Pair("Age", Num(1)), Pair("Smokes", Num(1)), Pair("STDs", Num(0))>>,
      <<Pair("Smokes", Num(1))>> }

NoResponse == [status |-> 0, key |-> "", text |-> "", listed |-> <<>>, model |-> "", prediction |-> -1]
Idle == [pc |-> "idle", client |-> "", endpoint |-> "", body |-> <<>>, payload |-> <<>>,
         x |-> <<>>, x_scaled |-> <<>>, calls |-> <<>>, response |-> NoResponse]

Call(fn, features, rows) == [fn |-> fn, features |-> features, rows |-> rows]

\* the unhandled exception of a handler: the framework answers 500
ServerError == [NoResponse EXCEPT !.status = 500, !.text = "Internal Server Error"]

\* rate_limit_handler (main.py 133-138)
rate_limit_handler ==
    [NoResponse EXCEPT !.status = 429, !.key = "detail",
                       !.text = "Too many requests. Please try again later."]

\* the HTTPException raised by build_feature_vector, as the framework renders it
http_exception(r) ==
    [NoResponse EXCEPT !.status = r.status_code, !.key = "detail",
                       !.text = r.detail, !.listed = r.listed]

\* limiter.limit("10/minute") with key_func = get_remote_address: a hit is
\* admitted while fewer than ten were counted for the key in the current window
limiter_admits_off_by_one(c, e) == hits[<<c, e>>] <= RateLimit
limiter_admits(c, e) == hits[<<c, e>>] < RateLimit

Arrive(s, c, e, p) ==
    /\ phase = "serving"
    /\ slots[s].pc = "idle"
    /\ IF e \in Limited
       THEN IF limiter_admits(c, e)
            THEN /\ hits' = [hits EXCEPT ![<<c, e>>] = @ + 1]
                 /\ slots' = [slots EXCEPT ![s] =
                        [Idle EXCEPT !.pc = "build", !.client = c, !.endpoint = e,
                                     !.body = p, !.payload = p]]
            ELSE /\ hits' = hits
                 /\ slots' = [slots EXCEPT ![s] =
                        [Idle EXCEPT !.pc = "done", !.client = c, !.endpoint = e,
                                     !.body = p, !.payload = p,
                                     !.response = rate_limit_handler]]
       ELSE /\ hits' = hits
            /\ slots' = [slots EXCEPT ![s] =
                   [Idle EXCEPT !.pc = "health", !.client = c, !.endpoint = e]]
    /\ UNCHANGED <<phase, artifacts, arg_input, arg_list, ret>>

\* the window of one key runs out
WindowExpire(c, e) ==
    /\ phase = "serving"
    /\ hits[<<c, e>>] > 0
    /\ hits' = [hits EXCEPT ![<<c, e>>] = 0]
    /\ UNCHANGED <<phase, artifacts, slots, arg_input, arg_list, ret>>

\* health_check (main.py 145-150)
health_check(s) ==
    /\ slots[s].pc = "health"
    /\ slots' = [slots EXCEPT ![s].pc = "done",
                              ![s].response = [NoResponse EXCEPT !.status = 200, !.key = "status",
                                                  !.text = "API is running successfully"]]
    /\ UNCHANGED <<phase, artifacts, hits, arg_input, arg_list, ret>>

\* x = build_feature_vector(payload.data, <features>) in a handler: `index` is
\* the global the handler names, `after` the handler's next statement
BuildStep(s, index, after) ==
    LET r == build_feature_vector(slots[s].payload, artifacts[index].value)
        called == Append(slots[s].calls,
                         Call("build_feature_vector", artifacts[index].value, <<>>))
    IN  /\ artifacts' = [artifacts EXCEPT ![index].value = r.feature_list]
        /\ slots' = [slots EXCEPT ![s] =
               IF r.raised
               THEN [@ EXCEPT !.pc = "done", !.payload = r.input_data, !.calls = called,
                              !.response = http_exception(r)]
               ELSE [@ EXCEPT !.pc = after, !.payload = r.input_data, !.calls = called,
                              !.x = r.value]]
        /\ UNCHANGED <<phase, hits, arg_input, arg_list, ret>>

\* predict_svm, line 166
predict_svm_build(s) ==
    /\ slots[s].pc = "build"
    /\ slots[s].endpoint = "svm"
    /\ BuildStep(s, 3, "scale")

\* x_scaled = svm_scaler.transform([x]), line 169
svm_scale_call_refit(scaler, rows) ==
    \* faulty variant: fit_transform in place of transform
    LET fitted == [twice_mean |-> [i \in 1..Len(rows[1]) |-> 2 * rows[1][i].val]]
        t == scaler_transform(fitted, rows)
    IN  [raised |-> t.raised, value |-> t.value, scaler |-> IF t.raised THEN scaler ELSE fitted]

svm_scale_call(scaler, rows) ==
    LET t == scaler_transform(scaler, rows)
    IN  [raised |-> t.raised, value |-> t.value, scaler |-> scaler]

predict_svm_scale(s) ==
    /\ slots[s].pc = "scale"
    /\ slots[s].endpoint = "svm"
    /\ LET t == svm_scale_call(svm_scaler, <<slots[s].x>>)
           called == Append(slots[s].calls, Call("svm_scaler.transform", <<>>, <<slots[s].x>>))
       IN  /\ artifacts' = [artifacts EXCEPT ![2].value = t.scaler]
           /\ slots' = [slots EXCEPT ![s] =
                  IF t.raised
                  THEN [@ EXCEPT !.pc = "done", !.calls = called, !.response = ServerError]
                  ELSE [@ EXCEPT !.pc = "predict", !.calls = called, !.x_scaled = t.value]]
    /\ UNCHANGED <<phase, hits, arg_input, arg_list, ret>>

\* the response of a prediction handler: {"model": name, "prediction": int(prediction)}
prediction_response(name, p) ==
    IF p.raised THEN ServerError
    ELSE [NoResponse EXCEPT !.status = 200, !.model = name, !.prediction = p.value[1]]

\* prediction = svm_model.predict(x_scaled)[0] and the return, lines 172-177
predict_svm_rows(s) == slots[s].x_scaled

predict_svm_predict(s) ==
    /\ slots[s].pc = "predict"
    /\ slots[s].endpoint = "svm"
    /\ LET rows == predict_svm_rows(s)
           p == svm_model_predict(svm_model, rows)
       IN  slots' = [slots EXCEPT ![s].pc = "done",
                                  ![s].calls = Append(@, Call("svm_model.predict", <<>>, rows)),
                                  ![s].response = prediction_response("SVM", p)]
    /\ UNCHANGED <<phase, artifacts, hits, arg_input, arg_list, ret>>

\* predict_dt, line 193
predict_dt_build_svm_list(s) ==
    \* faulty variant: the handler names svm_features
    /\ slots[s].pc = "build"
    /\ slots[s].endpoint = "dt"
    /\ BuildStep(s, 3, "predict")

predict_dt_build(s) ==
    /\ slots[s].pc = "build"
    /\ slots[s].endpoint = "dt"
    /\ BuildStep(s, 5, "predict")

\* prediction = dt_model.predict([x])[0] and the return, lines 196-201
predict_dt_predict(s) ==
    /\ slots[s].pc = "predict"
    /\ slots[s].endpoint = "dt"
    /\ LET rows == <<slots[s].x>>
           p == dt_model_predict(dt_model, rows)
       IN  slots' = [slots EXCEPT ![s].pc = "done",
                                  ![s].calls = Append(@, Call("dt_model.predict", <<>>, rows)),
                                  ![s].response = prediction_response("Decision Tree", p)]
    /\ UNCHANGED <<phase, artifacts, hits, arg_input, arg_list, ret>>

\* the response is sent and the worker is free again
Return(s) ==
    /\ slots[s].pc = "done"
    /\ slots' = [slots EXCEPT ![s] = Idle]
    /\ UNCHANGED <<phase, artifacts, hits, arg_input, arg_list, ret>>

InitServer(workers) ==
    /\ phase = "loading"
    /\ artifacts = <<>>
    /\ hits = [k \in AllClients \X Limited |-> 0]
    /\ slots = [s \in 1..workers |-> Idle]
    /\ arg_input = <<>>
    /\ arg_list = <<>>
    /\ ret = NotCalled

Init == InitServer(MaxInflight)

Next ==
    \/ LoadArtifact
    \/ \E s \in DOMAIN slots, e \in Endpoints, p \in ServerPayloads : Arrive(s, "c1", e, p)
    \/ \E e \in Limited : WindowExpire("c1", e)
    \/ \E s \in DOMAIN slots : health_check(s)
    \/ \E s \in DOMAIN slots : predict_svm_build(s)
    \/ \E s \in DOMAIN slots : predict_svm_scale(s)
    \/ \E s \in DOMAIN slots : predict_svm_predict(s)
    \/ \E s \in DOMAIN slots : predict_dt_build(s)
    \/ \E s \in DOMAIN slots : predict_dt_predict(s)
    \/ \E s \in DOMAIN slots : Return(s)

Spec == Init /\ [][Next]_vars

InitLimit == InitServer(1)

NextLimit ==
    \/ LoadArtifact
    \/ \E s \in DOMAIN slots, c \in AllClients, e \in Endpoints, p \in LimitPayloads : Arrive(s, c, e, p)
    \/ \E c \in AllClients, e \in Limited : WindowExpire(c, e)
    \/ \E s \in DOMAIN slots : health_check(s)
    \/ \E s \in DOMAIN slots : predict_svm_build(s)
    \/ \E s \in DOMAIN slots : predict_svm_scale(s)
    \/ \E s \in DOMAIN slots : predict_svm_predict(s)
    \/ \E s \in DOMAIN slots : predict_dt_build(s)
    \/ \E s \in DOMAIN slots : predict_dt_predict(s)
    \/ \E s \in DOMAIN slots : Return(s)

SpecLimit == InitLimit /\ [][NextLimit]_vars

\* build_feature_vector on its own and inside the handlers
InitOrder == InitBuild \/ Init
NextOrder == NextBuild \/ Next
SpecOrder == InitOrder /\ [][NextOrder]_vars

(***************************************************************************)
(* What the claims speak of, stated without the operators of the model of  *)
(* build_feature_vector.                                                   *)
(***************************************************************************)
Called == ret # NotCalled

\* the names of fl that are no key of d, in the order of fl
AbsentSeq(d, fl) ==
    LET idx == {i \in 1..Len(fl) : fl[i] \notin Keys(d)}
    IN  [k \in 1..Cardinality(idx) |->
            fl[CHOOSE i \in idx : Cardinality({j \in idx : j <= i}) = k]]

\* the value d holds for name f
ValueOf(d, f) == CHOOSE v \in Values : <<f, v>> \in AsMapping(d)
ExpectedVector(d, fl) == [i \in 1..Len(fl) |-> ValueOf(d, fl[i])]

\* every insertion order of the same key/value pairs
Reorderings(d) == {[i \in 1..Len(d) |-> d[q[i]]] : q \in Permutations(1..Len(d))}

SameOutcome(a, b) ==
    /\ a.raised = b.raised
    /\ a.status_code = b.status_code
    /\ a.detail = b.detail
    /\ a.listed = b.listed
    /\ a.value = b.value

Required(e) == IF e = "svm" THEN SvmFeaturesFile ELSE DtFeaturesFile
ValidFor(d, fl) ==
    \A i \in 1..Len(fl) : \E j \in 1..Len(d) : d[j][1] = fl[i] /\ IsNumber(d[j][2])

\* a request the limiter admitted and a handler has answered
Answered(r) == r.pc = "done" /\ r.endpoint \in Limited /\ r.response.status # 429

InferenceCalls == {"svm_scaler.transform", "svm_model.predict", "dt_model.predict"}

(***************************************************************************)
(* C1: whenever some name of the feature list is no key of the input,      *)
(* build_feature_vector raises the 400 error "Missing features: [...]"     *)
(* that lists exactly the absent names of the feature list: all of them,   *)
(* none that is present, in the order of the feature list.                 *)
(***************************************************************************)
C1_MissingListedExactly ==
    (Called /\ AbsentSeq(arg_input, arg_list) # <<>>) =>
        /\ ret.raised
        /\ ret.status_code = 400
        /\ ret.detail = "Missing features: "
        /\ ret.listed = AbsentSeq(arg_input, arg_list)
        /\ ret.value = <<>>

C1_Witness ==
    /\ Called
    /\ ret.raised
    /\ Len(ret.listed) = 2
    /\ Len(arg_list) = 3
    /\ arg_input # <<>>
    /\ \E i \in 1..Len(arg_list) : Contains(arg_input, arg_list[i])

(***************************************************************************)
(* C2: when the input holds every name of the feature list, the result has *)
(* the length of the feature list and its i-th element is the input's      *)
(* value for the i-th name, copied whatever its type; other keys of the    *)
(* input contribute nothing.                                               *)
(***************************************************************************)
C2_VectorFollowsFeatureList ==
    (Called /\ AbsentSeq(arg_input, arg_list) = <<>>) =>
        /\ ~ret.raised
        /\ Len(ret.value) = Len(arg_list)
        /\ \A i \in 1..Len(arg_list) :
              \E j \in 1..Len(arg_input) : arg_input[j] = <<arg_list[i], ret.value[i]>>

C2_Witness ==
    /\ Called
    /\ ~ret.raised
    /\ Len(arg_list) = 2
    /\ Len(arg_input) = 3
    /\ arg_input[1][1] = arg_list[2]
    /\ arg_input[3][1] = arg_list[1]
    /\ ret.value[1] = Str
    /\ ret.value[2] = Num(1)

C4_ValidationPrecedesInference ==
    \A s \in DOMAIN slots :
        LET r == slots[s]
        IN  (r.pc # "idle" /\ r.endpoint \in Limited) =>
                /\ \A k \in 1..Len(r.calls) :
                      r.calls[k].fn \in InferenceCalls =>
                          /\ k > 1
                          /\ r.calls[1].fn = "build_feature_vector"
                          /\ AbsentSeq(r.body, Required(r.endpoint)) = <<>>
                /\ \A k, m \in 1..Len(r.calls) : r.calls[k].fn = r.calls[m].fn => k = m

C4_Witness ==
    \E s, u \in DOMAIN slots :
        /\ slots[s].pc = "done" /\ slots[s].endpoint = "svm"
        /\ slots[s].response.status = 400
        /\ Len(slots[s].calls) = 1
        /\ slots[u].pc = "done" /\ slots[u].endpoint = "svm"
        /\ slots[u].response.status = 200
        /\ Len(slots[u].calls) = 3

(***************************************************************************)
(* C5: two inputs that hold the same key/value pairs in different          *)
(* insertion orders give the same outcome of build_feature_vector for a    *)
(* feature list, and the same response of a prediction endpoint.           *)
(***************************************************************************)
C5_InsertionOrderIrrelevant ==
    /\ Called =>
          \A d \in Reorderings(arg_input) :
              SameOutcome(build_feature_vector(d, arg_list), ret)
    /\ \A s, u \in DOMAIN slots :
          ( /\ Answered(slots[s]) /\ Answered(slots[u])
            /\ slots[s].endpoint = slots[u].endpoint
            /\ AsMapping(slots[s].body) = AsMapping(slots[u].body) ) =>
              slots[s].response = slots[u].response

C5_Witness ==
    \E s, u \in DOMAIN slots :
        /\ Answered(slots[s]) /\ Answered(slots[u])
        /\ slots[s].endpoint = "svm" /\ slots[u].endpoint = "svm"
        /\ slots[s].body # slots[u].body
        /\ AsMapping(slots[s].body) = AsMapping(slots[u].body)
        /\ slots[s].response.status = 200
        /\ slots[u].response.status = 200

(***************************************************************************)
(* C6: the same request, repeated while other requests are handled before, *)
(* between and beside the repetitions, gets the same answer every time.    *)
(***************************************************************************)
C6_RepeatedRequestSameAnswer ==
    \A s, u \in DOMAIN slots :
        ( /\ Answered(slots[s]) /\ Answered(slots[u])
          /\ slots[s].endpoint = slots[u].endpoint
          /\ slots[s].body = slots[u].body ) =>
            /\ slots[s].response.status = slots[u].response.status
            /\ slots[s].response.prediction = slots[u].response.prediction
            /\ slots[s].response.model = slots[u].response.model

C6_Witness ==
    \E s, u \in DOMAIN slots :
        /\ s # u
        /\ Answered(slots[s]) /\ Answered(slots[u])
        /\ slots[s].endpoint = "svm" /\ slots[u].endpoint = "svm"
        /\ slots[s].body = slots[u].body
        /\ slots[s].response.status = 200
        /\ slots[s].response.prediction = 1
        /\ hits[<<"c1", "svm">>] = 6
        /\ hits[<<"c1", "dt">>] = 3

C8_NoTrafficWithoutArtifacts ==
    /\ (\E s \in DOMAIN slots : slots[s] # Idle) =>
          /\ phase = "serving"
          /\ Len(artifacts) = NumArtifacts
          /\ \A i \in 1..NumArtifacts : artifacts[i].loaded
    /\ phase = "serving" =>
          /\ Len(artifacts) = NumArtifacts
          /\ \A i \in 1..NumArtifacts : artifacts[i].loaded
    /\ phase = "crashed" =>
          /\ Len(artifacts) < NumArtifacts
          /\ \A s \in DOMAIN slots : slots[s] = Idle

C8_Witness ==
    /\ phase = "crashed"
    /\ Len(artifacts) = 4
    /\ \A s \in DOMAIN slots : slots[s] = Idle

(***************************************************************************)
(* C9: predict_svm builds against the SVM feature list, gives the one-row  *)
(* vector to the SVM scaler and only the scaled row to the SVM classifier, *)
(* and reports "SVM"; predict_dt builds against the Decision Tree feature  *)
(* list, gives the unscaled row to the Decision Tree classifier, never     *)
(* invokes the scaler, and reports "Decision Tree".                        *)
(***************************************************************************)
C9_EachHandlerItsOwnPipeline ==
    \A s \in DOMAIN slots :
        LET r == slots[s]
            xv == ExpectedVector(r.body, Required(r.endpoint))
            built == Call("build_feature_vector", Required(r.endpoint), <<>>)
        IN  /\ (r.pc # "idle" /\ r.endpoint = "svm") =>
                  /\ \A k \in 1..Len(r.calls) :
                        r.calls[k].fn \in {"build_feature_vector", "svm_scaler.transform",
                                           "svm_model.predict"}
                  /\ r.calls # <<>> => r.calls[1] = built
                  /\ r.response.status = 200 =>
                        /\ r.calls = << built,
                                        Call("svm_scaler.transform", <<>>, <<xv>>),
                                        Call("svm_model.predict", <<>>,
                                             scaler_transform(SvmScalerFile, <<xv>>).value) >>
                        /\ r.response.model = "SVM"
            /\ (r.pc # "idle" /\ r.endpoint = "dt") =>
                  /\ \A k \in 1..Len(r.calls) :
                        r.calls[k].fn \in {"build_feature_vector", "dt_model.predict"}
                  /\ r.calls # <<>> => r.calls[1] = built
                  /\ r.response.status = 200 =>
                        /\ r.calls = << built, Call("dt_model.predict", <<>>, <<xv>>) >>
                        /\ r.response.model = "Decision Tree"
            /\ (r.pc # "idle" /\ r.endpoint = "health") => r.calls = <<>>

C9_Witness ==
    \E s, u \in DOMAIN slots :
        /\ slots[s].pc = "done" /\ slots[s].endpoint = "svm"
        /\ slots[s].response.status = 200 /\ slots[s].response.model = "SVM"
        /\ slots[u].pc = "done" /\ slots[u].endpoint = "dt"
        /\ slots[u].response.status = 200 /\ slots[u].response.model = "Decision Tree"
        /\ Len(slots[u].body) = 2

(***************************************************************************)
(* C10: once startup has ended the five artifacts keep the values they     *)
(* were loaded with, whatever requests are handled and however they        *)
(* interleave, and the handling of a request leaves its input mapping as   *)
(* it was received.                                                        *)
(***************************************************************************)
C10_BundlesReadOnly ==
    /\ phase = "serving" => artifacts = LoadedArtifacts
    /\ \A s \in DOMAIN slots :
          (slots[s].pc # "idle" /\ slots[s].endpoint \in Limited) =>
              slots[s].payload = slots[s].body

C10_Witness ==
    \E s, u \in DOMAIN slots :
        /\ slots[s].pc = "done" /\ slots[s].endpoint = "svm"
        /\ slots[s].response.status = 200
        /\ slots[u].pc = "done" /\ slots[u].endpoint = "dt"
        /\ slots[u].response.status = 400
        /\ artifacts = LoadedArtifacts

====
